---- MODULE Spec2Model ----
(***************************************************************************)
(* The device-import wizard of main.go: the bubbletea model (type model),  *)
(* its Update / handleEnter / handleConnect handlers, the commands they    *)
(* return (each run by the runtime in a goroutine of its own, its result   *)
(* message handed back to Update), and the CSV importer processCSV.        *)
(*                                                                         *)
(* Strings that the code inspects character by character (CSV cells) are   *)
(* sequences of code points; ids, keys and error texts are TLA+ strings.   *)
(***************************************************************************)
EXTENDS Integers, Sequences, FiniteSets, Bags, TLC

\* ------------------------------------------------------------- bounds
\* times a command is started while another one is still in flight
MaxOverlap == 2
\* rows in one CSV file
MaxRows == 2
\* characters of a generated CSV cell
MaxStrLen == 1

\* ------------------------------------------------------------- states
stateConnecting == 0
stateTenantSelect == 1
stateApplicationSelect == 2
stateDeviceProfileSelect == 3
stateFileSelect == 4
stateProcessing == 5
stateComplete == 6
stateError == 7

\* all sequences over S of length at most n
BSeq(S, n) == UNION {[1..k -> S] : k \in 0..n}

\* ------------------------------------------------------------- inputs
\* ids the remote API may put in a list record (a proto3 string: may be empty)
Ids == {"", "a"}
\* a record of a list response (tenant, application or device profile)
RemoteRecord(id) == [Id |-> id, Name |-> "n", Description |-> "d"]
\* the records the remote API holds, in its order; a response is the first k
Remote == <<RemoteRecord("a"), RemoteRecord("")>>
ListResponses == {SubSeq(Remote, 1, k) : k \in 0..Len(Remote)}
\* texts the user types into the token input
Tokens == {"", "x"}
\* keys the terminal delivers
Keys == {"enter", "q", "ctrl+c", "up", "down", "x"}
\* paths the file picker can report
Paths == {"/home/u/devices.csv"}

\* ------------------------------------------------------------- list.Model
\* The bubbles list as far as the wizard uses it: its items and cursor.
NewList(items) == [items |-> items, index |-> 0]

\* zero or one item: the highlighted one (nil on an empty list)
SelectedItem(l) ==
    IF Len(l.items) = 0 \/ l.index >= Len(l.items) THEN <<>>
    ELSE <<l.items[l.index + 1]>>

ListUpdate(l, key) ==
    IF key = "down" /\ l.index + 1 < Len(l.items) THEN [l EXCEPT !.index = @ + 1]
    ELSE IF key = "up" /\ l.index > 0 THEN [l EXCEPT !.index = @ - 1]
    ELSE l

\* the text input: a printable key is appended, anything else is ignored
TokenInputUpdate(v, key) == IF key = "x" THEN v \o "x" ELSE v

\* ------------------------------------------------------------- commands
NoCmd == [kind |-> "none"]
QuitCmd == [kind |-> "tea.Quit"]

\* func() tea.Msg { return connectMsg{} }
ConnectCmd == [kind |-> "connect"]

\* func() tea.Msg { return errorMsg(fmt.Errorf("failed to connect ...")) }
DialErrorCmd == [kind |-> "dialError"]

\* m.filepicker.Init(): reads the current directory
ReadDirCmd == [kind |-> "readDir"]

\* The closures capture the model by value: the selections they read are kept.
loadTenants(m) == [kind |-> "loadTenants"]

loadApplications(m) ==
    [kind |-> "loadApplications", TenantId |-> m.selectedTenant]

loadDeviceProfiles(m) ==
    [kind |-> "loadDeviceProfiles", TenantId |-> m.selectedTenant]

processCSV(m, filepath) ==
    [kind |-> "processCSV", selectedTenant |-> m.selectedTenant, selectedApp |-> m.selectedApp,
     selectedProfile |-> m.selectedProfile, filepath |-> filepath,
     pc |-> "open", records |-> <<>>, start |-> 0, i |-> 0, created |-> 0,
     calls |-> <<>>, results |-> <<>>]

\* ------------------------------------------------------------- the model
initialModel ==
    [state |-> stateConnecting, client |-> 0, apiToken |-> "", tokenInput |-> "",
     tenantList |-> NewList(<<>>), appList |-> NewList(<<>>),
     profileList |-> NewList(<<>>),
     selectedTenant |-> "", selectedApp |-> "", selectedProfile |-> "",
     err |-> "", devicesCreated |-> 0]

\* A handler's result: the new model and the command it returns.
Ret(m, cmd) == [m |-> m, cmd |-> cmd]

\* handleEnter, case stateConnecting
enterConnectingAnyToken(m) == Ret([m EXCEPT !.apiToken = m.tokenInput], ConnectCmd)

enterConnecting(m) ==
    IF m.tokenInput # "" THEN Ret([m EXCEPT !.apiToken = m.tokenInput], ConnectCmd)
    ELSE Ret(m, NoCmd)

\* handleEnter, case stateTenantSelect
enterTenantSelect(m) ==
    IF SelectedItem(m.tenantList) # <<>> THEN
        LET m2 == [m EXCEPT !.selectedTenant = SelectedItem(m.tenantList)[1].id]
        IN  Ret(m2, loadApplications(m2))
    ELSE Ret(m, NoCmd)

\* handleEnter, case stateApplicationSelect
enterApplicationSelect(m) ==
    IF SelectedItem(m.appList) # <<>> THEN
        LET m2 == [m EXCEPT !.selectedApp = SelectedItem(m.appList)[1].id]
        IN  Ret(m2, loadDeviceProfiles(m2))
    ELSE Ret(m, NoCmd)

\* handleEnter, case stateDeviceProfileSelect
enterDeviceProfileSelectNoItem(m) ==
    Ret([m EXCEPT !.state = stateFileSelect], ReadDirCmd)

enterDeviceProfileSelect(m) ==
    IF SelectedItem(m.profileList) # <<>> THEN
        Ret([m EXCEPT !.selectedProfile = SelectedItem(m.profileList)[1].id,
                      !.state = stateFileSelect], ReadDirCmd)
    ELSE Ret(m, NoCmd)

handleEnter(m) ==
    IF m.state = stateConnecting THEN enterConnecting(m)
    ELSE IF m.state = stateTenantSelect THEN enterTenantSelect(m)
    ELSE IF m.state = stateApplicationSelect THEN enterApplicationSelect(m)
    ELSE IF m.state = stateDeviceProfileSelect THEN enterDeviceProfileSelect(m)
    ELSE Ret(m, NoCmd)

\* dial: what grpc.Dial returned, [ok, conn]
handleConnect(m, dial) ==
    IF ~dial.ok THEN Ret(m, DialErrorCmd)
    ELSE LET m2 == [m EXCEPT !.client = dial.conn]
         IN  Ret(m2, loadTenants(m2))

\* The state-specific tail of Update, for a message no case above returned on.
\* fp: what the file picker answers to DidSelectFile(msg), [didSelect, path];
\* the picker is a library, its answer to a key it is handed is an input.
stateUpdate(m, msg, fp) ==
    IF msg.type # "key" THEN
        Ret(m, NoCmd)
    ELSE IF m.state = stateConnecting THEN
        Ret([m EXCEPT !.tokenInput = TokenInputUpdate(@, msg.key)], NoCmd)
    ELSE IF m.state = stateTenantSelect THEN
        Ret([m EXCEPT !.tenantList = ListUpdate(@, msg.key)], NoCmd)
    ELSE IF m.state = stateApplicationSelect THEN
        Ret([m EXCEPT !.appList = ListUpdate(@, msg.key)], NoCmd)
    ELSE IF m.state = stateDeviceProfileSelect THEN
        Ret([m EXCEPT !.profileList = ListUpdate(@, msg.key)], NoCmd)
    ELSE IF m.state = stateFileSelect THEN
        IF fp.didSelect THEN Ret(m, processCSV(m, fp.path)) ELSE Ret(m, NoCmd)
    ELSE Ret(m, NoCmd)

Update(m, msg, dial, fp) ==
    IF msg.type = "key" /\ msg.key \in {"ctrl+c", "q"} THEN Ret(m, QuitCmd)
    ELSE IF msg.type = "key" /\ msg.key = "enter" THEN handleEnter(m)
    ELSE IF msg.type = "connectMsg" THEN handleConnect(m, dial)
    ELSE IF msg.type = "tenantsLoadedMsg" THEN
        Ret([m EXCEPT !.tenantList = NewList(msg.items),
                      !.state = stateTenantSelect], NoCmd)
    ELSE IF msg.type = "appsLoadedMsg" THEN
        Ret([m EXCEPT !.appList = NewList(msg.items),
                      !.state = stateApplicationSelect], NoCmd)
    ELSE IF msg.type = "profilesLoadedMsg" THEN
        Ret([m EXCEPT !.profileList = NewList(msg.items),
                      !.state = stateDeviceProfileSelect], NoCmd)
    ELSE IF msg.type = "devicesCreatedMsg" THEN
        Ret([m EXCEPT !.devicesCreated = msg.n, !.state = stateComplete], NoCmd)
    ELSE IF msg.type = "errorMsg" THEN
        Ret([m EXCEPT !.err = msg.err, !.state = stateError], NoCmd)
    ELSE stateUpdate(m, msg, fp)

\* ------------------------------------------------------------- loaders
tenantItem(tenant) == [title |-> tenant.Name, desc |-> tenant.Name, id |-> tenant.Id]
appItem(app) == [title |-> app.Name, desc |-> app.Description, id |-> app.Id]
profileItem(profile) == [title |-> profile.Name, desc |-> profile.Name, id |-> profile.Id]

\* resp: what the List call returned, [err, Result]
loadTenantsMsg(resp) ==
    IF resp.err # "" THEN [type |-> "errorMsg", err |-> resp.err]
    ELSE [type |-> "tenantsLoadedMsg",
          items |-> [k \in 1..Len(resp.Result) |-> tenantItem(resp.Result[k])]]

loadApplicationsMsg(resp) ==
    IF resp.err # "" THEN [type |-> "errorMsg", err |-> resp.err]
    ELSE [type |-> "appsLoadedMsg",
          items |-> [k \in 1..Len(resp.Result) |-> appItem(resp.Result[k])]]

loadDeviceProfilesMsg(resp) ==
    IF resp.err # "" THEN [type |-> "errorMsg", err |-> resp.err]
    ELSE [type |-> "profilesLoadedMsg",
          items |-> [k \in 1..Len(resp.Result) |-> profileItem(resp.Result[k])]]

RpcResults == [err : {"rpc"}, Result : {<<>>}] \cup [err : {""}, Result : ListResponses]

\* ------------------------------------------------------------- importer
RECURSIVE isHexFrom(_, _)
isHexFrom(s, k) ==
    IF k > Len(s) THEN TRUE
    ELSE IF ~(  (s[k] >= 48 /\ s[k] <= 57)
             \/ (s[k] >= 97 /\ s[k] <= 102)
             \/ (s[k] >= 65 /\ s[k] <= 70)) THEN FALSE
    ELSE isHexFrom(s, k + 1)

\* isHexString without the test on the length
isHexStringNoLen(s) == isHexFrom(s, 1)

isHexString(s) == IF Len(s) = 0 THEN FALSE ELSE isHexFrom(s, 1)

\* the header test of processCSV; rows are indexed from 0 as in the code
startIndex(records) ==
    IF Len(records) > 0 /\ ~isHexString(records[1][1]) THEN 1 ELSE 0

\* c: a processCSV run after ReadAll
readAll(c, records) ==
    [c EXCEPT !.pc = "loop", !.records = records, !.created = 0,
              !.start = startIndex(records), !.i = startIndex(records)]

\* the CreateDeviceRequest made for records[i]
createRequest(c, record) ==
    [row |-> c.i, DevEui |-> record[1], Name |-> record[2],
     Description |-> IF Len(record) > 2 THEN record[3] ELSE <<>>,
     ApplicationId |-> c.selectedApp, DeviceProfileId |-> c.selectedProfile,
     IsDisabled |-> FALSE]

\* processRow that leaves the loop on a failed Create
processRowAbort(c, createErr) ==
    LET record == c.records[c.i + 1] IN
    IF Len(record) < 2 THEN
        [c EXCEPT !.i = @ + 1, !.results = Append(@, "skip")]
    ELSE IF createErr THEN
        [c EXCEPT !.i = Len(c.records), !.results = Append(@, "fail"),
                  !.calls = Append(@, createRequest(c, record))]
    ELSE
        [c EXCEPT !.i = @ + 1, !.results = Append(@, "ok"), !.created = @ + 1,
                  !.calls = Append(@, createRequest(c, record))]

\* processRow that counts a failed Create as a created device
processRowCountAll(c, createErr) ==
    LET record == c.records[c.i + 1] IN
    IF Len(record) < 2 THEN
        [c EXCEPT !.i = @ + 1, !.results = Append(@, "skip")]
    ELSE
        [c EXCEPT !.i = @ + 1, !.created = @ + 1,
                  !.calls = Append(@, createRequest(c, record)),
                  !.results = Append(@, IF createErr THEN "fail" ELSE "ok")]

\* processRow whose continue on a short row skips the i++ of the for statement
processRowNoAdvance(c, createErr) ==
    LET record == c.records[c.i + 1] IN
    IF Len(record) < 2 THEN c
    ELSE IF createErr THEN
        [c EXCEPT !.i = @ + 1, !.results = Append(@, "fail"),
                  !.calls = Append(@, createRequest(c, record))]
    ELSE
        [c EXCEPT !.i = @ + 1, !.results = Append(@, "ok"), !.created = @ + 1,
                  !.calls = Append(@, createRequest(c, record))]

\* one iteration of the loop over records[i]; createErr: did Create fail
processRow(c, createErr) ==
    LET record == c.records[c.i + 1] IN
    IF Len(record) < 2 THEN
        [c EXCEPT !.i = @ + 1, !.results = Append(@, "skip")]
    ELSE IF createErr THEN
        [c EXCEPT !.i = @ + 1, !.results = Append(@, "fail"),
                  !.calls = Append(@, createRequest(c, record))]
    ELSE
        [c EXCEPT !.i = @ + 1, !.results = Append(@, "ok"), !.created = @ + 1,
                  !.calls = Append(@, createRequest(c, record))]

\* ------------------------------------------------------------- CSV inputs
\* the characters on both sides of each bound of the hex test, and '_'
Alphabet == {47, 48, 57, 58, 64, 65, 70, 71, 95, 96, 97, 102, 103}
dev_eui == <<100, 101, 118, 95, 101, 117, 105>>
hex04ABEF01 == <<48, 52, 65, 66, 69, 70, 48, 49>>
sensor == <<115>>
hallway == <<104>>

\* rows of one, two and three cells whose first cell is in cells
Rows(cells) ==
    {<<c>> : c \in cells} \cup {<<c, sensor>> : c \in cells}
        \cup {<<c, sensor, hallway>> : c \in cells}

\* a hex digit followed by a letter past 'f', and the reverse
mixed0g == <<48, 103>>
mixedg0 == <<103, 48>>

HeaderCells == BSeq(Alphabet, MaxStrLen) \cup {dev_eui, hex04ABEF01, mixed0g, mixedg0}
DataCells == {hex04ABEF01, <<103>>}

\* files the importer is run on alone: any first cell in row 0
ImportFiles ==
    {<<>>} \cup {<<r>> \o t : r \in Rows(HeaderCells),
                               t \in BSeq(Rows(DataCells), MaxRows - 1)}

\* files on disk while the wizard runs
WizardFiles == {<< <<dev_eui, sensor>>, <<hex04ABEF01, sensor>> >>}

\* ------------------------------------------------------------- runtime
VARIABLES
    m,          \* the model bubbletea holds
    cmds,       \* bag of commands in flight
    running,    \* FALSE once tea.Quit was returned
    conns,      \* connections grpc.Dial has opened so far (numbered 1..conns)
    closed,     \* the connections closed
    reached,    \* history: the furthest wizard state entered so far
    assigned,   \* history: the selected ids assigned so far
    failed,     \* history: the list loads whose List call returned an error
    imported,   \* history: processCSV has been issued
    overlaps    \* history: commands started while another one was in flight

vars == <<m, cmds, running, conns, closed, reached, assigned, failed, imported, overlaps>>

\* the commands that make a List call
LoadKinds == {"loadTenants", "loadApplications", "loadDeviceProfiles"}

NoDial == [ok |-> FALSE, conn |-> 0]
NoPick == [didSelect |-> FALSE, path |-> ""]
Picks == {NoPick} \cup [didSelect : {TRUE}, path : Paths]

\* the selected id a handler assigned, known by the command it returned with it
Assigns(cmd) ==
    IF cmd.kind = "loadApplications" THEN {"selectedTenant"}
    ELSE IF cmd.kind = "loadDeviceProfiles" THEN {"selectedApp"}
    ELSE IF cmd.kind = "readDir" THEN {"selectedProfile"}
    ELSE {}

Init ==
    /\ m = initialModel
    /\ cmds = EmptyBag
    /\ running = TRUE
    /\ conns = 0
    /\ closed = {}
    /\ reached = stateConnecting
    /\ assigned = {}
    /\ failed = {}
    /\ imported = FALSE
    /\ overlaps = 0

\* One pass of the event loop: Update(msg) on the model, the returned command
\* started; done is the bag of commands whose result msg is. tea.Quit ends the
\* process, and with it every goroutine still running a command.
Handle(msg, dial, fp, done) ==
    LET r == Update(m, msg, dial, fp)
        issued == IF r.cmd.kind \in {"none", "tea.Quit"} THEN EmptyBag
                  ELSE SetToBag({r.cmd})
        left == cmds (-) done
        next == left (+) issued
        overlap == issued # EmptyBag /\ left # EmptyBag
    IN  /\ overlap => overlaps < MaxOverlap
        /\ overlaps' = IF overlap THEN overlaps + 1 ELSE overlaps
        /\ m' = r.m
        /\ cmds' = IF r.cmd.kind = "tea.Quit" THEN EmptyBag ELSE next
        /\ running' = (r.cmd.kind # "tea.Quit")
        /\ closed' = IF r.cmd.kind = "tea.Quit" /\ m.client # 0
                     THEN closed \cup {m.client} ELSE closed
        /\ conns' = IF msg.type = "connectMsg" /\ dial.ok THEN dial.conn ELSE conns
        /\ reached' = IF r.m.state # stateError /\ r.m.state > reached
                      THEN r.m.state ELSE reached
        /\ assigned' = assigned \cup Assigns(r.cmd)
        /\ failed' = IF msg.type = "errorMsg"
                     THEN failed \cup ({c.kind : c \in BagToSet(done)} \cap LoadKinds)
                     ELSE failed
        /\ imported' = (imported \/ r.cmd.kind = "processCSV")

InFlight(kind) == {c \in BagToSet(cmds) : c.kind = kind}

KeyMsg(k) == [type |-> "key", key |-> k]

KeyQuit ==
    /\ running
    /\ \E k \in {"q", "ctrl+c"} : Handle(KeyMsg(k), NoDial, NoPick, EmptyBag)

KeyEnter ==
    /\ running
    /\ Handle(KeyMsg("enter"), NoDial, NoPick, EmptyBag)

KeyOther ==
    /\ running
    /\ \E k \in Keys \ {"q", "ctrl+c", "enter"},
          fp \in IF m.state = stateFileSelect THEN Picks ELSE {NoPick} :
         /\ m.state = stateConnecting => TokenInputUpdate(m.tokenInput, k) \in Tokens
         /\ Handle(KeyMsg(k), NoDial, fp, EmptyBag)

ConnectReturn ==
    /\ running
    /\ \E c \in InFlight("connect"), ok \in BOOLEAN :
         Handle([type |-> "connectMsg"], [ok |-> ok, conn |-> conns + 1], NoPick,
                SetToBag({c}))

DialErrorReturn ==
    /\ running
    /\ \E c \in InFlight("dialError") :
         Handle([type |-> "errorMsg", err |-> "dial"], NoDial, NoPick, SetToBag({c}))

ReadDirReturn ==
    /\ running
    /\ \E c \in InFlight("readDir") :
         Handle([type |-> "readDirMsg"], NoDial, NoPick, SetToBag({c}))

LoadTenantsReturn ==
    /\ running
    /\ \E c \in InFlight("loadTenants"), resp \in RpcResults :
         Handle(loadTenantsMsg(resp), NoDial, NoPick, SetToBag({c}))

LoadApplicationsReturn ==
    /\ running
    /\ \E c \in InFlight("loadApplications"), resp \in RpcResults :
         Handle(loadApplicationsMsg(resp), NoDial, NoPick, SetToBag({c}))

LoadDeviceProfilesReturn ==
    /\ running
    /\ \E c \in InFlight("loadDeviceProfiles"), resp \in RpcResults :
         Handle(loadDeviceProfilesMsg(resp), NoDial, NoPick, SetToBag({c}))

\* processCSV up to ReadAll: os.Open or ReadAll fails, or the rows are read
ProcessCSVRead(files) ==
    /\ running
    /\ \E c \in {x \in InFlight("processCSV") : x.pc = "open"} :
         \/ Handle([type |-> "errorMsg", err |-> "file"], NoDial, NoPick,
                   SetToBag({c}))
         \/ /\ \E records \in files :
                 cmds' = (cmds (-) SetToBag({c})) (+) SetToBag({readAll(c, records)})
            /\ UNCHANGED <<m, running, conns, closed, reached, assigned, failed, imported, overlaps>>

\* one iteration of the row loop, the Create call awaited
ProcessCSVRow ==
    /\ running
    /\ \E c \in {x \in InFlight("processCSV") : x.pc = "loop"}, createErr \in BOOLEAN :
         /\ c.i < Len(c.records)
         /\ cmds' = (cmds (-) SetToBag({c})) (+) SetToBag({processRow(c, createErr)})
    /\ UNCHANGED <<m, running, conns, closed, reached, assigned, failed, imported, overlaps>>

\* the loop is over: devicesCreatedMsg(created) reaches Update
ProcessCSVReturn ==
    /\ running
    /\ \E c \in {x \in InFlight("processCSV") : x.pc = "loop"} :
         /\ c.i >= Len(c.records)
         /\ Handle([type |-> "devicesCreatedMsg", n |-> c.created], NoDial, NoPick,
                   SetToBag({c}))

Next ==
    \/ KeyQuit
    \/ KeyEnter
    \/ KeyOther
    \/ ConnectReturn
    \/ DialErrorReturn
    \/ ReadDirReturn
    \/ LoadTenantsReturn
    \/ LoadApplicationsReturn
    \/ LoadDeviceProfilesReturn
    \/ ProcessCSVRead(WizardFiles)
    \/ ProcessCSVRow
    \/ ProcessCSVReturn

Spec == Init /\ [][Next]_vars

\* ------------------------------------------------------------- importer alone
\* processCSV run on any file: the wizard in stateFileSelect, a file just chosen.
FileSelectModel ==
    [initialModel EXCEPT
        !.state = stateFileSelect, !.client = 1, !.apiToken = "x", !.tokenInput = "x",
        !.tenantList = NewList(<<tenantItem(Remote[1])>>),
        !.appList = NewList(<<appItem(Remote[1])>>),
        !.profileList = NewList(<<profileItem(Remote[1])>>),
        !.selectedTenant = "a", !.selectedApp = "a", !.selectedProfile = "a"]

InitImport ==
    /\ m = FileSelectModel
    /\ \E path \in Paths : cmds = SetToBag({processCSV(FileSelectModel, path)})
    /\ running = TRUE
    /\ conns = 1
    /\ closed = {}
    /\ reached = stateFileSelect
    /\ assigned = {"selectedTenant", "selectedApp", "selectedProfile"}
    /\ failed = {}
    /\ imported = TRUE
    /\ overlaps = 0

NextImport ==
    \/ ProcessCSVRead(ImportFiles)
    \/ ProcessCSVRow
    \/ ProcessCSVReturn

SpecImport == InitImport /\ [][NextImport]_vars

\* files for the loop alone: every sequence of at most MaxRows rows of one, two
\* or three cells, with and without a header row
LoopFiles == BSeq(Rows(DataCells \cup {dev_eui}), MaxRows)

NextImportFair ==
    \/ ProcessCSVRead(LoopFiles)
    \/ ProcessCSVRow
    \/ ProcessCSVReturn

\* The importer alone, scheduled: the goroutine that runs the command is not
\* starved, os.Open, ReadAll and every Create call return, and the runtime
\* hands the returned message to Update.
SpecImportFair ==
    /\ InitImport
    /\ [][NextImportFair]_vars
    /\ WF_vars(ProcessCSVRead(LoopFiles))
    /\ WF_vars(ProcessCSVRow)
    /\ WF_vars(ProcessCSVReturn)

\* the importer's start state is one the wizard reaches
ImportStartNotReached ==
    ~(/\ m = FileSelectModel
      /\ \E path \in Paths : cmds = SetToBag({processCSV(FileSelectModel, path)})
      /\ running /\ conns = 1 /\ closed = {} /\ reached = stateFileSelect
      /\ assigned = {"selectedTenant", "selectedApp", "selectedProfile"}
      /\ imported)

\* ============================================================= claims
RpcKinds == {"loadTenants", "loadApplications", "loadDeviceProfiles", "processCSV"}

\* commands of the kinds in K in flight, each copy counted
CountKinds(bag, K) ==
    BagCardinality([c \in {x \in BagToSet(bag) : x.kind \in K} |-> bag[c]])

\* the processCSV runs that have read their rows
Loops == {c \in InFlight("processCSV") : c.pc = "loop"}

EnterResult == Update(m, KeyMsg("enter"), NoDial, NoPick)

\* C1: once the wizard state is Complete or Error, no later event changes it.
C1_TerminalStatesStay ==
    [][m.state \in {stateComplete, stateError} => m'.state = m.state]_vars

\* C2: the wizard state is never earlier in the order Connecting .. Complete
\* than a state it has already been in.
C2_NoBackNavigation == m.state # stateError => m.state >= reached

\* C3: at most one load or import command is in flight at any moment.
C3_OneRpcInFlight == CountKinds(cmds, RpcKinds) <= 1

\* C4: once the rows are read, the create calls made so far are exactly the rows
\* from start up to i with at least 2 cells, one call each, in row order, whatever
\* calls failed; the run leaves the loop only at the last row, with
\* devicesCreatedMsg, which puts the wizard in stateComplete and not stateError.
ExpectedCalls(c) ==
    LET keep(j) == Len(c.records[j + 1]) >= 2
        F[j \in c.start..c.i] ==
            IF j = c.start THEN <<>>
            ELSE IF keep(j - 1) THEN Append(F[j - 1], j - 1) ELSE F[j - 1]
    IN  F[c.i]

C4_CallsSoFar ==
    \A c \in Loops :
        /\ c.start <= c.i /\ c.i <= Len(c.records)
        /\ [k \in 1..Len(c.calls) |-> c.calls[k].row] = ExpectedCalls(c)

C4_LeavesAtEnd ==
    \A c \in Loops :
        \/ \E createErr \in BOOLEAN :
              c.i < Len(c.records) /\ BagIn(processRow(c, createErr), cmds')
        \/ BagIn(c, cmds')
        \/ /\ c.i = Len(c.records)
           /\ m'.state = stateComplete
           /\ m'.state # stateError

\* C4: the importer never aborts the batch on a failed row: both parts above.
C4_NeverAborts == []C4_CallsSoFar /\ [][C4_LeavesAtEnd]_vars

C4_Witness ==
    \E c \in Loops :
        /\ c.i = Len(c.records)
        /\ Len(c.calls) = 2
        /\ c.results = <<"fail", "ok">>

\* C5: whenever processCSV is issued, selectedTenant, selectedApp, selectedProfile
\* and the file path are all non-empty.
C5_ImportInputsNonEmpty ==
    \A c \in InFlight("processCSV") :
        /\ c.selectedTenant # ""
        /\ c.selectedApp # ""
        /\ c.selectedProfile # ""
        /\ c.filepath # ""

\* C6: a selected id that has been assigned is not assigned again by any later
\* event (the assignment comes with the start of its command).
StartsOne(kind) == CountKinds(cmds', {kind}) > CountKinds(cmds, {kind})

C6_WriteOnce ==
    [][/\ "selectedTenant" \in assigned => ~StartsOne("loadApplications")
       /\ "selectedApp" \in assigned => ~StartsOne("loadDeviceProfiles")
       /\ "selectedProfile" \in assigned => ~StartsOne("readDir")]_vars

\* C7: in stateConnecting, Enter on an empty token input changes nothing and
\* returns no command; Enter on a non-empty one records it as apiToken and
\* returns the connect command.
C7_EnterOnToken ==
    m.state = stateConnecting =>
        IF m.tokenInput = "" THEN EnterResult = Ret(m, NoCmd)
        ELSE /\ EnterResult.m = [m EXCEPT !.apiToken = m.tokenInput]
             /\ EnterResult.m.apiToken # ""
             /\ EnterResult.cmd = ConnectCmd

\* a step that handles connectMsg
ConnectHandled ==
    running' /\ CountKinds(cmds', {"connect"}) < CountKinds(cmds, {"connect"})

\* C7 as claimed: handling connectMsg always opens the connection and issues the
\* tenant load.
C7_ConnectAlwaysLoads ==
    [][ConnectHandled =>
          /\ m'.client # 0 /\ conns' = conns + 1
          /\ StartsOne("loadTenants")]_vars

\* C7 as claimed: Enter on the token as above, and connectMsg always connects
\* and loads.
C7_AsClaimed == []C7_EnterOnToken /\ C7_ConnectAlwaysLoads

\* C7 amended: handling connectMsg either opens a new connection, stores it and
\* issues the tenant load (grpc.Dial succeeded), or stores nothing, opens nothing
\* and issues the error command (grpc.Dial failed); the state stays as it was.
C7_ConnectLoadsOrFails ==
    [][ConnectHandled =>
          /\ m'.state = m.state
          /\ \/ /\ conns' = conns + 1 /\ m'.client = conns'
                /\ StartsOne("loadTenants") /\ ~StartsOne("dialError")
             \/ /\ conns' = conns /\ m'.client = m.client
                /\ StartsOne("dialError") /\ ~StartsOne("loadTenants")]_vars

\* C7 amended: Enter on the token as above, and connectMsg connects and loads or,
\* grpc.Dial failing, issues the error command.
C7_Amended == []C7_EnterOnToken /\ C7_ConnectLoadsOrFails

C7_Witness ==
    /\ m.apiToken = "x"
    /\ m.client # 0
    /\ InFlight("loadTenants") # {}
    /\ m.state = stateConnecting

\* C8: in the three selection states, Enter with no item selected changes
\* nothing and returns no command.
NoItemSelected ==
    \/ m.state = stateTenantSelect /\ SelectedItem(m.tenantList) = <<>>
    \/ m.state = stateApplicationSelect /\ SelectedItem(m.appList) = <<>>
    \/ m.state = stateDeviceProfileSelect /\ SelectedItem(m.profileList) = <<>>

C8_EnterWithoutItem == NoItemSelected => EnterResult = Ret(m, NoCmd)

C8_Witness ==
    /\ running
    /\ m.state = stateDeviceProfileSelect
    /\ m.profileList.items = <<>>
    /\ m.selectedApp = "a"

\* C9: processing starts at row 1 when there is a row and the first cell of row
\* 0 is not a non-empty string of the characters 0-9, a-f, A-F; else at row 0.
HexChars == (48..57) \cup (97..102) \cup (65..70)
PureHex(s) == Len(s) > 0 /\ \A k \in 1..Len(s) : s[k] \in HexChars

C9_HeaderDetection ==
    \A c \in Loops :
        /\ c.start = IF Len(c.records) >= 1 /\ ~PureHex(c.records[1][1]) THEN 1 ELSE 0
        /\ (Len(c.records) >= 1 /\ c.records[1][1] = dev_eui) => c.start = 1
        /\ (Len(c.records) >= 1 /\ c.records[1][1] = hex04ABEF01) => c.start = 0

C9_Witness ==
    \E c \in Loops :
        /\ Len(c.records) = 2
        /\ c.records[1][1] = dev_eui
        /\ c.start = 1
        /\ c.i = 2

\* C10: the count is the number of rows from start on with at least 2 cells whose
\* Create succeeded; short rows and failed calls add nothing; at every step
\* created <= calls issued <= rows examined; that count is what is returned.
Oks(c) == {j \in 1..Len(c.results) : c.results[j] = "ok"}

C10_CountSoFar ==
    \A c \in Loops :
        /\ Len(c.results) = c.i - c.start
        /\ \A j \in 1..Len(c.results) :
              c.results[j] = "skip" <=> Len(c.records[c.start + j]) < 2
        /\ c.created = Cardinality(Oks(c))
        /\ c.created <= Len(c.calls)
        /\ Len(c.calls) <= c.i - c.start

C10_Returned ==
    \A c \in Loops :
        (~BagIn(c, cmds') /\ c.i = Len(c.records)) => m'.devicesCreated = c.created

\* C10: the count kept, and returned, is the number of successful Create calls.
C10_CreatedCount == []C10_CountSoFar /\ [][C10_Returned]_vars

C10_Witness ==
    /\ m.state = stateComplete
    /\ m.devicesCreated = 1
    /\ cmds = EmptyBag

\* the processCSV runs in flight at the given place of the function, each counted
RunsAt(bag, pc) ==
    BagCardinality([c \in {x \in BagToSet(bag) : x.kind = "processCSV" /\ x.pc = pc}
                      |-> bag[c]])

\* a step in which a processCSV run returns from os.Open / ReadAll with an error
FileReadFails ==
    /\ running'
    /\ RunsAt(cmds', "open") < RunsAt(cmds, "open")
    /\ RunsAt(cmds', "loop") = RunsAt(cmds, "loop")

\* C11: a file that cannot be opened or parsed is fatal to the import: the run
\* has made no create call, its errorMsg puts the wizard in stateError with that
\* error, and devicesCreated is still 0.
C11_FileReadErrorFatal ==
    [][FileReadFails =>
          /\ \A c \in InFlight("processCSV") : c.pc = "open" => c.calls = <<>>
          /\ m'.state = stateError
          /\ m'.err = "file"
          /\ m'.devicesCreated = 0]_vars

\* C12, the loaders: a List call that returned an error yields errorMsg with
\* that error and nothing else (no list of items).
C12_LoaderDeliversError ==
    \A resp \in RpcResults :
        resp.err # "" =>
            /\ loadTenantsMsg(resp) = [type |-> "errorMsg", err |-> resp.err]
            /\ loadApplicationsMsg(resp) = [type |-> "errorMsg", err |-> resp.err]
            /\ loadDeviceProfilesMsg(resp) = [type |-> "errorMsg", err |-> resp.err]

\* C12, the step that handles the failed load: stateError carrying the error,
\* no list touched.
C12_FailureToError ==
    failed' # failed =>
        /\ m'.state = stateError /\ m'.err = "rpc"
        /\ m'.tenantList = m.tenantList
        /\ m'.appList = m.appList
        /\ m'.profileList = m.profileList

\* C12, afterwards: a stage whose load has failed gets no list and its selection
\* state is not entered.
C12_StageStaysOut ==
    /\ "loadTenants" \in failed =>
          /\ m'.tenantList.items = m.tenantList.items
          /\ m'.state = stateTenantSelect => m.state = stateTenantSelect
    /\ "loadApplications" \in failed =>
          /\ m'.appList.items = m.appList.items
          /\ m'.state = stateApplicationSelect => m.state = stateApplicationSelect
    /\ "loadDeviceProfiles" \in failed =>
          /\ m'.profileList.items = m.profileList.items
          /\ m'.state = stateDeviceProfileSelect => m.state = stateDeviceProfileSelect

\* C12: a failed list load is atomic: only errorMsg is delivered, the wizard
\* moves to stateError carrying that error, and the list of that stage is never
\* populated and its selection state never entered.
C12_FailedLoadAtomic ==
    /\ []C12_LoaderDeliversError
    /\ [][C12_FailureToError]_vars
    /\ [][C12_StageStaysOut]_vars

\* C12 without its last part: what the failed load itself does.
C12_FailedLoadItself == []C12_LoaderDeliversError /\ [][C12_FailureToError]_vars

\* C13: in every run handleConnect opens at most one connection, and once the
\* program has exited on a quit request every connection opened is closed.
C13_OneSessionClosedOnQuit ==
    /\ conns <= 1
    /\ ~running => closed = 1..conns

\* C13, its second part alone: no connection is left open at exit.
C13_NoneLeftOpen == ~running => closed = 1..conns

\* C14: every create call the importer makes carries a DevEui that is a
\* non-empty string of the characters 0-9, a-f, A-F.
C14_DevEuiIsHex ==
    \A c \in Loops : \A k \in 1..Len(c.calls) : PureHex(c.calls[k].DevEui)

\* C15, first part: from the file being chosen until the result message of
\* the import arrives, the wizard state is stateProcessing.
C15_ProcessingWhileImporting ==
    InFlight("processCSV") # {} => m.state = stateProcessing

\* C15, second part: stateComplete is entered from stateProcessing only.
C15_CompleteFromProcessing ==
    (m'.state = stateComplete /\ m.state # stateComplete) => m.state = stateProcessing

\* C15: the wizard passes through stateProcessing: both parts.
C15_PassesThroughProcessing ==
    []C15_ProcessingWhileImporting /\ [][C15_CompleteFromProcessing]_vars

\* stateProcessing is assigned nowhere: the wizard is never in it
NeverProcessing == m.state # stateProcessing

\* the entries of a selection list agree with the records of a response: as
\* many, in the same order; and whether each has a non-empty id
SameEntries(items, Result) ==
    /\ Len(items) = Len(Result)
    /\ \A k \in 1..Len(Result) :
          items[k].id = Result[k].Id /\ items[k].title = Result[k].Name

NonEmptyIds(items) == \A k \in 1..Len(items) : items[k].id # ""

\* the list Update builds from a loaded message, by the field it is stored in
ListBuilt(msg) ==
    LET m2 == Update(m, msg, NoDial, NoPick).m
    IN  IF msg.type = "tenantsLoadedMsg" THEN m2.tenantList
        ELSE IF msg.type = "appsLoadedMsg" THEN m2.appList
        ELSE m2.profileList

LoadedMsgs(Result) ==
    {loadTenantsMsg([err |-> "", Result |-> Result]),
     loadApplicationsMsg([err |-> "", Result |-> Result]),
     loadDeviceProfilesMsg([err |-> "", Result |-> Result])}

\* C16, its first part: for a response of K records, the message of each
\* loader and the list built from it have K entries in the order of the response.
C16_SameEntriesInOrder ==
    \A Result \in ListResponses : \A msg \in LoadedMsgs(Result) :
        /\ SameEntries(msg.items, Result)
        /\ SameEntries(ListBuilt(msg).items, Result)

\* C16: for a response of K records, the message of each loader and the list
\* built from it have K entries in the order of the response, each with a
\* non-empty id.
C16_ListMatchesResponse ==
    \A Result \in ListResponses : \A msg \in LoadedMsgs(Result) :
        /\ SameEntries(msg.items, Result)
        /\ SameEntries(ListBuilt(msg).items, Result)
        /\ NonEmptyIds(msg.items)
        /\ NonEmptyIds(ListBuilt(msg).items)

\* C17: in stateFileSelect the Enter key reaches the file picker: when the
\* picker, handed Enter on a CSV file, reports that file as chosen, Update
\* returns processCSV for its path.
C17_EnterSelectsFile ==
    m.state = stateFileSelect =>
        \A fp \in Picks :
            fp.didSelect =>
                Update(m, KeyMsg("enter"), NoDial, fp) = Ret(m, processCSV(m, fp.path))

\* in stateFileSelect Enter does nothing, whatever the picker would answer
EnterIgnoredInFileSelect ==
    m.state = stateFileSelect =>
        \A fp \in Picks : Update(m, KeyMsg("enter"), NoDial, fp) = Ret(m, NoCmd)

\* a step in which the reply of command c is handled and its list installed
\* in the model, the wizard entering state st
Installs(c, st) ==
    /\ running'
    /\ CopiesIn(c, cmds') < CopiesIn(c, cmds)
    /\ m'.state = st

\* C18, the lists: whenever an application list (a device-profile list) is
\* installed, it is the one loaded for the tenant in selectedTenant.
C18_ListsOfSelectedTenant ==
    /\ \A c \in InFlight("loadApplications") :
          Installs(c, stateApplicationSelect) => c.TenantId = m'.selectedTenant
    /\ \A c \in InFlight("loadDeviceProfiles") :
          Installs(c, stateDeviceProfileSelect) => c.TenantId = m'.selectedTenant

\* C18, the tenant: from stateApplicationSelect on selectedTenant is not changed.
C18_TenantKept ==
    m.state \in stateApplicationSelect..stateComplete =>
        m'.selectedTenant = m.selectedTenant

\* C18: in stateApplicationSelect and later the lists shown, from which
\* selectedApp and selectedProfile are taken, were loaded for the tenant in
\* selectedTenant: they are so when installed, and the tenant is kept afterwards.
C18_TenantConsistency ==
    [][C18_ListsOfSelectedTenant]_vars /\ [][C18_TenantKept]_vars

\* C19: the import runs at most once: once processCSV has been issued, no
\* later event issues it again.
C19_ImportOnce == [][imported => ~StartsOne("processCSV")]_vars

\* C19, its consequence: no row of a file is sent to Create by two runs.
C19_NoRowTwice ==
    \A c \in Loops : Len(c.calls) > 0 => CopiesIn(c, cmds) = 1

\* C20: the import terminates: once processCSV has started, every Create call
\* returning, the loop finishes, the result message is delivered and the wizard
\* reaches stateComplete or stateError.
C20_ImportTerminates ==
    (InFlight("processCSV") # {}) ~>
        (InFlight("processCSV") = {} /\ m.state \in {stateComplete, stateError})

C20_Witness ==
    /\ imported
    /\ InFlight("processCSV") = {}
    /\ m.state = stateComplete
    /\ m.devicesCreated = 2

====
